---- MODULE Spec2Model ----
(***************************************************************************)
(* Model of crux_cli's codegen core: the ItemProcessor work-queue          *)
(* traversal (codegen/item_processor.rs), the CrateWrapper lookup          *)
(* (codegen/mod.rs) and the parser visitor (codegen/parser.rs).            *)
(*                                                                         *)
(* Option<T> is modelled as a sequence of length 0 (None) or 1 (Some).     *)
(* Ids and names are strings.  The symbol graph (Crate.index) is the       *)
(* variable index, fixed by Init and never changed afterwards.             *)
(***************************************************************************)
EXTENDS Integers, Sequences, FiniteSets, TLC

VARIABLES
    index,        \* Crate.index: Id -> Item, the graph snapshot
    work_queue,   \* ItemProcessor.work_queue
    output,       \* ItemProcessor.output: the finished paths
    missing_ids,  \* CrateWrapper.missing_ids
    pc,           \* "run" inside ItemProcessor::run, "done" after it returned
    iter,         \* iterations of run's loop so far, modulo 2: an iteration
                  \* that leaves the queue as it found it is still a step
    paths,        \* Crate.paths: the Ids that have an ItemSummary
    order,        \* the order in which Crate.index yields its impl blocks
    stack,        \* parse: the pending calls and loop iterations, top first
    parsed_data,  \* Visitor.parsed_data
    result        \* what parse handed back to its caller

procVars == <<work_queue, output, missing_ids, iter>>
parseVars == <<paths, order, stack, parsed_data, result>>
vars == <<index, pc, work_queue, output, missing_ids, iter,
          paths, order, stack, parsed_data, result>>

\* Longest ancestor path the model follows before it reports resource
\* exhaustion (a path that grows without end never returns in the code).
MaxDepth == 5

\* Deepest visit_item/visit_type nesting (the `level` argument) the model
\* follows before it reports the call stack as exhausted.
MaxLevel == 6

None == <<>>
Some(x) == <<x>>

Occurs(seq, x) == \E i \in 1..Len(seq) : seq[i] = x
Count(seq, x) == Cardinality({i \in 1..Len(seq) : seq[i] = x})

----------------------------------------------------------------------------
(* Types (rustdoc_types::Type), as far as the traversal looks at them.     *)

NoArgs == <<>>
ResolvedPath(name, id, args) ==
    [t |-> "ResolvedPath", name |-> name, id |-> id, args |-> args]
Primitive(name) == [t |-> "Primitive", name |-> name]
TupleType(types) == [t |-> "Tuple", types |-> types]
\* DynTrait, FunctionPointer, Slice, Array, ImplTrait, Infer, RawPointer,
\* BorrowedRef, QualifiedPath, Generic: only the variant matters.
OtherType(t) == [t |-> t]

\* The Type variants visit_type maps to None without looking inside.
NonPortableShapes ==
    {"DynTrait", "FunctionPointer", "Slice", "Array", "ImplTrait", "Infer",
     "RawPointer", "BorrowedRef", "QualifiedPath"}

\* GenericArgs and GenericArg
AngleBracketed(args) == Some([g |-> "AngleBracketed", args |-> args])
Parenthesized == Some([g |-> "Parenthesized"])
TypeArg(ty) == [a |-> "Type", ty |-> ty]
OtherArg(a) == [a |-> a]

----------------------------------------------------------------------------
(* Items (rustdoc_types::Item with its ItemEnum payload).                  *)

BaseItem(id, kind, name) ==
    [id |-> id, kind |-> kind, name |-> name, attrs |-> <<>>,
     items |-> <<>>, impls |-> <<>>,
     skind |-> "", fields |-> <<>>, fields_stripped |-> FALSE,
     import_id |-> None, glob |-> FALSE, source |-> "", import_name |-> "",
     synthetic |-> FALSE, blanket_impl |-> None, trait_ |-> None,
     for_ |-> None, ty |-> None, default |-> None]

Module(id, name, items) ==
    [BaseItem(id, "Module", Some(name)) EXCEPT !.items = items]
StructPlain(id, name, fields, stripped, impls) ==
    [BaseItem(id, "Struct", Some(name)) EXCEPT
        !.skind = "Plain", !.fields = fields,
        !.fields_stripped = stripped, !.impls = impls]
StructField(id, name, ty) ==
    [BaseItem(id, "StructField", Some(name)) EXCEPT !.ty = Some(ty)]
Function(id, name) == BaseItem(id, "Function", Some(name))
StructOf(id, name, skind, fields) ==
    [BaseItem(id, "Struct", Some(name)) EXCEPT
        !.skind = skind, !.fields = fields]
Enum(id, name, variants) ==
    [BaseItem(id, "Enum", Some(name)) EXCEPT !.items = variants]
Variant(id, name, attrs, vkind, fields, stripped) ==
    [BaseItem(id, "Variant", Some(name)) EXCEPT
        !.attrs = attrs, !.skind = vkind, !.fields = fields,
        !.fields_stripped = stripped]
TypeAlias(id, name, ty) ==
    [BaseItem(id, "TypeAlias", Some(name)) EXCEPT !.ty = Some(ty)]
AssocType(id, name, default) ==
    [BaseItem(id, "AssocType", Some(name)) EXCEPT !.default = default]
Import(id, source, name, target, glob) ==
    [BaseItem(id, "Import", None) EXCEPT
        !.import_id = target, !.glob = glob,
        !.source = source, !.import_name = name]
Impl(id, synthetic, blanket, attrs, trait_, for_, items) ==
    [BaseItem(id, "Impl", None) EXCEPT
        !.synthetic = synthetic, !.blanket_impl = blanket, !.attrs = attrs,
        !.trait_ = trait_, !.for_ = Some(for_), !.items = items]

----------------------------------------------------------------------------
(* ImplKind                                                                *)

AutoDerivedAttr == "#[automatically_derived]"

\* Mutant: the derive attribute is tested before the synthetic/blanket pair.
ImplKind_from_derived_first(impl_item) ==
    IF \E i \in 1..Len(impl_item.attrs) : impl_item.attrs[i] = AutoDerivedAttr
    THEN "AutoDerived"
    ELSE IF impl_item.synthetic /\ impl_item.blanket_impl = None THEN "AutoTrait"
    ELSE IF ~impl_item.synthetic /\ impl_item.blanket_impl # None THEN "Blanket"
    ELSE IF impl_item.trait_ = None THEN "Inherent"
    ELSE "Trait"

ImplKind_from(impl_item) ==
    LET has_blanket_impl == impl_item.blanket_impl # None
        is_automatically_derived ==
            \E i \in 1..Len(impl_item.attrs) :
                impl_item.attrs[i] = AutoDerivedAttr
    IN  CASE impl_item.synthetic /\ ~has_blanket_impl -> "AutoTrait"
          [] ~impl_item.synthetic /\ has_blanket_impl -> "Blanket"
          [] OTHER ->
                IF is_automatically_derived THEN "AutoDerived"
                ELSE IF impl_item.trait_ = None THEN "Inherent"
                ELSE "Trait"

is_active(kind) ==
    CASE kind \in {"Blanket", "AutoTrait", "AutoDerived"} -> FALSE
      [] kind \in {"Inherent", "Trait"} -> TRUE

sorting_prefix(item) ==
    CASE item.kind = "ExternCrate" -> 1
      [] item.kind = "Import" -> 2
      [] item.kind = "Primitive" -> 3
      [] item.kind = "Module" -> 4
      [] item.kind = "Macro" -> 5
      [] item.kind = "ProcMacro" -> 6
      [] item.kind = "Enum" -> 7
      [] item.kind = "Union" -> 8
      [] item.kind = "Struct" -> 9
      [] item.kind = "StructField" -> 10
      [] item.kind = "Variant" -> 11
      [] item.kind = "Constant" -> 12
      [] item.kind = "Static" -> 13
      [] item.kind = "Trait" -> 14
      [] item.kind = "AssocType" -> 15
      [] item.kind = "AssocConst" -> 16
      [] item.kind = "Function" -> 17
      [] item.kind = "TypeAlias" -> 19
      [] item.kind = "Impl" ->
            (LET k == ImplKind_from(item)
             IN  CASE k = "Inherent" -> 20
                   [] k \in {"Trait", "AutoDerived"} -> 21
                   [] k = "AutoTrait" -> 23
                   [] k = "Blanket" -> 24)
      [] item.kind = "ForeignType" -> 25
      [] item.kind = "OpaqueTy" -> 26
      [] item.kind = "TraitAlias" -> 27

----------------------------------------------------------------------------
(* Structural children and attached impls of an item.                      *)

RECURSIVE Flatten(_)
Flatten(opts) ==
    IF opts = <<>> THEN <<>> ELSE Head(opts) \o Flatten(Tail(opts))

children_for_item(item) ==
    CASE item.kind \in {"Module", "Enum", "Trait", "Impl"} -> item.items
      [] item.kind = "Union" -> item.fields
      [] item.kind = "Struct" /\ item.skind = "Plain" -> item.fields
      [] item.kind = "Struct" /\ item.skind = "Tuple" -> Flatten(item.fields)
      [] item.kind = "Struct" /\ item.skind = "Unit" -> <<>>
      [] item.kind = "Variant" /\ item.skind = "Struct" -> item.fields
      [] item.kind = "Variant" /\ item.skind = "Tuple" -> Flatten(item.fields)
      [] item.kind = "Variant" /\ item.skind = "Plain" -> <<>>
      [] OTHER -> <<>>

impls_for_item(item) ==
    IF item.kind \in {"Union", "Struct", "Enum", "Primitive", "Trait"}
    THEN item.impls
    ELSE <<>>

----------------------------------------------------------------------------
(* CrateWrapper                                                            *)

\* Mutant: a failed lookup is not recorded.
get_item_unrecorded(missing, id) ==
    IF id \in DOMAIN index
    THEN [item |-> Some(index[id]), missing |-> missing]
    ELSE [item |-> None, missing |-> missing]

\* get_item: the item if the index has it; otherwise the Id is pushed onto
\* missing_ids.  Returns the Option and the new missing_ids.
get_item(missing, id) ==
    IF id \in DOMAIN index
    THEN [item |-> Some(index[id]), missing |-> missing]
    ELSE [item |-> None, missing |-> Append(missing, id)]

missing_item_ids == missing_ids

\* ParsedData::new and the value of `result` while nothing was returned.
NoData == [structs |-> <<>>, enums |-> <<>>, aliases |-> <<>>]
NoResult == [tag |-> "None"]

----------------------------------------------------------------------------
(* ItemProcessor                                                           *)

InPath(parent_path, id) ==
    \E i \in 1..Len(parent_path) : parent_path[i].id = id

\* Mutant: the unit is pushed to the back of the queue.
add_to_work_queue_back(queue, parent_path, id) ==
    Append(queue, [parent_path |-> parent_path, id |-> id])

\* add_to_work_queue: push_front of UnprocessedItem { parent_path, id }.
add_to_work_queue(queue, parent_path, id) ==
    <<[parent_path |-> parent_path, id |-> id]>> \o queue

\* `for id in ids { self.add_to_work_queue(parent_path.clone(), id) }`
RECURSIVE add_all_to_work_queue(_, _, _)
add_all_to_work_queue(queue, parent_path, ids) ==
    IF ids = <<>> THEN queue
    ELSE add_all_to_work_queue(
            add_to_work_queue(queue, parent_path, Head(ids)),
            parent_path, Tail(ids))

\* Mutant: the last component is born hidden.
finish_hidden(unprocessed_item, item, overridden_name, type_) ==
    Append(unprocessed_item.parent_path,
           [id |-> item.id,
            overridden_name |-> overridden_name,
            sorting_prefix |-> sorting_prefix(item),
            type_ |-> type_,
            hide |-> TRUE])

\* UnprocessedItem::finish: the parent path completed with the item.
finish(unprocessed_item, item, overridden_name, type_) ==
    Append(unprocessed_item.parent_path,
           [id |-> item.id,
            overridden_name |-> overridden_name,
            sorting_prefix |-> sorting_prefix(item),
            type_ |-> type_,
            hide |-> FALSE])

HideAll(path) == [i \in 1..Len(path) |-> [path[i] EXCEPT !.hide = TRUE]]

\* Mutant: a global visited-set instead of the ancestor check: an Id that
\* already ends an output item is not resolved again.
get_item_if_not_visited(missing, parent_path, id) ==
    IF \/ \E i \in 1..Len(parent_path) : parent_path[i].id = id
       \/ \E o \in 1..Len(output) : output[o][Len(output[o])].id = id
    THEN [item |-> None, missing |-> missing]
    ELSE get_item(missing, id)

\* Mutant: no ancestor check before the lookup.
get_item_unless_missing(missing, parent_path, id) ==
    get_item(missing, id)

\* get_item_if_not_in_path: None without a lookup when id is an ancestor.
\* Mutant: an Id found on the path is recorded as missing.
get_item_if_not_in_path_recording(missing, parent_path, id) ==
    IF InPath(parent_path, id)
    THEN [item |-> None, missing |-> Append(missing, id)]
    ELSE get_item(missing, id)

get_item_if_not_in_path(missing, parent_path, id) ==
    IF InPath(parent_path, id)
    THEN [item |-> None, missing |-> missing]
    ELSE get_item(missing, id)

\* and_then over import.id: no lookup at all when the import has no Id.
resolve_import(missing, parent_path, import) ==
    IF import.import_id = None
    THEN [item |-> None, missing |-> missing]
    ELSE get_item_if_not_in_path(missing, parent_path, import.import_id[1])

\* process_item_for_type: children first, then impls under the all-hidden
\* path, each pushed to the front; the finished item is appended to output.
\* Mutant: the flags are set on the finished path itself, not on a copy.
process_item_for_type_in_place(queue, out, unprocessed_item, item, overridden_name, type_) ==
    LET finished_item == finish(unprocessed_item, item, overridden_name, type_)
        hidden == IF impls_for_item(item) = <<>> THEN finished_item
                  ELSE HideAll(finished_item)
        q1 == add_all_to_work_queue(queue, finished_item, children_for_item(item))
        q2 == add_all_to_work_queue(q1, hidden, impls_for_item(item))
    IN  [work_queue |-> q2, output |-> Append(out, hidden)]

\* Mutant: the impls are enqueued ahead of the children, which leaves the
\* children in front of them.
process_item_for_type_impls_first(queue, out, unprocessed_item, item, overridden_name, type_) ==
    LET finished_item == finish(unprocessed_item, item, overridden_name, type_)
        q1 == add_all_to_work_queue(queue, HideAll(finished_item), impls_for_item(item))
        q2 == add_all_to_work_queue(q1, finished_item, children_for_item(item))
    IN  [work_queue |-> q2, output |-> Append(out, finished_item)]

\* Mutant: the structural children are handed a hidden path as well.
process_item_for_type_hiding(queue, out, unprocessed_item, item, overridden_name, type_) ==
    LET finished_item == finish(unprocessed_item, item, overridden_name, type_)
        q1 == add_all_to_work_queue(queue, HideAll(finished_item),
                                    children_for_item(item))
        q2 == add_all_to_work_queue(q1, HideAll(finished_item), impls_for_item(item))
    IN  [work_queue |-> q2, output |-> Append(out, finished_item)]

process_item_for_type(queue, out, unprocessed_item, item, overridden_name, type_) ==
    LET finished_item == finish(unprocessed_item, item, overridden_name, type_)
        q1 == add_all_to_work_queue(queue, finished_item, children_for_item(item))
        q2 == add_all_to_work_queue(q1, HideAll(finished_item), impls_for_item(item))
    IN  [work_queue |-> q2, output |-> Append(out, finished_item)]

process_item(queue, out, unprocessed_item, item, overridden_name) ==
    process_item_for_type(queue, out, unprocessed_item, item, overridden_name, None)

RecursionName(item) ==
    "<<" \o (IF item.name = None THEN "" ELSE item.name[1]) \o ">>"

\* Mutant: no recursion check.
process_item_always(queue, out, unprocessed_item, item, overridden_name) ==
    process_item(queue, out, unprocessed_item, item, overridden_name)

process_item_unless_recursive(queue, out, unprocessed_item, item, overridden_name) ==
    IF InPath(unprocessed_item.parent_path, item.id)
    THEN [work_queue |-> queue,
          output |-> Append(out, finish(unprocessed_item, item,
                                        Some(RecursionName(item)), None))]
    ELSE process_item(queue, out, unprocessed_item, item, overridden_name)

GlobName(import) == "<<" \o import.source \o "::*>>"

\* Mutant: the kind of the glob's target is not looked at.
process_import_glob_item_of_any(queue, out, missing, unprocessed_item, item) ==
    LET r == resolve_import(missing, unprocessed_item.parent_path, item)
    IN  IF r.item # None
        THEN [work_queue |-> add_all_to_work_queue(
                                queue, unprocessed_item.parent_path,
                                r.item[1].items),
              output |-> out, missing |-> r.missing]
        ELSE [missing |-> r.missing] @@
             process_item(queue, out, unprocessed_item, item,
                          Some(GlobName(item)))

process_import_glob_item(queue, out, missing, unprocessed_item, item) ==
    LET r == resolve_import(missing, unprocessed_item.parent_path, item)
    IN  IF r.item # None /\ r.item[1].kind = "Module"
        THEN [work_queue |-> add_all_to_work_queue(
                                queue, unprocessed_item.parent_path,
                                r.item[1].items),
              output |-> out, missing |-> r.missing]
        ELSE [missing |-> r.missing] @@
             process_item(queue, out, unprocessed_item, item,
                          Some(GlobName(item)))

\* Mutant: the import's local name is not handed on.
process_import_item_unnamed(queue, out, missing, unprocessed_item, item) ==
    LET r == resolve_import(missing, unprocessed_item.parent_path, item)
        actual_item == IF r.item # None THEN r.item[1] ELSE item
    IN  [missing |-> r.missing] @@
        process_item(queue, out, unprocessed_item, actual_item, None)

process_import_item(queue, out, missing, unprocessed_item, item) ==
    LET r == resolve_import(missing, unprocessed_item.parent_path, item)
        actual_item == IF r.item # None THEN r.item[1] ELSE item
    IN  [missing |-> r.missing] @@
        process_item(queue, out, unprocessed_item, actual_item,
                     Some(item.import_name))

process_impl_item(queue, out, unprocessed_item, item) ==
    IF ~is_active(ImplKind_from(item))
    THEN [work_queue |-> queue, output |-> out]
    ELSE process_item_for_type(queue, out, unprocessed_item, item, None, item.for_)

\* id_to_items: terminal Id -> the output items (by position) ending there.
item_of(finished_item) == finished_item[Len(finished_item)].id

\* Mutant: a one-to-one map, a later item replaces an earlier one.
id_to_items_last ==
    [id \in {item_of(output[i]) : i \in 1..Len(output)} |->
        LET all == SelectSeq([i \in 1..Len(output) |-> i],
                             LAMBDA i : item_of(output[i]) = id)
        IN  <<all[Len(all)]>>]

\* id_to_items: every output item (by its position in output) is pushed
\* onto the list of its terminal item's Id, in output order.
id_to_items ==
    [id \in {item_of(output[i]) : i \in 1..Len(output)} |->
        SelectSeq([i \in 1..Len(output) |-> i],
                  LAMBDA i : item_of(output[i]) = id)]

----------------------------------------------------------------------------
(* ItemProcessor::run, one loop iteration per step.                        *)

Running == pc = "run" /\ work_queue # <<>>
NextUnit == Head(work_queue)
FitsDepth == Len(NextUnit.parent_path) < MaxDepth

\* pop_front, and get_item fails: the Id is recorded, the unit is dropped.
RunMissing ==
    /\ Running
    /\ NextUnit.id \notin DOMAIN index
    /\ work_queue' = Tail(work_queue)
    /\ missing_ids' = get_item(missing_ids, NextUnit.id).missing
    /\ iter' = 1 - iter
    /\ UNCHANGED <<index, output, pc, parseVars>>

RunImportGlob ==
    /\ Running
    /\ NextUnit.id \in DOMAIN index
    /\ FitsDepth
    /\ LET item == index[NextUnit.id]
       IN  /\ item.kind = "Import" /\ item.glob
           /\ LET r == process_import_glob_item(Tail(work_queue), output,
                                                missing_ids, NextUnit, item)
              IN  /\ work_queue' = r.work_queue
                  /\ output' = r.output
                  /\ missing_ids' = r.missing
    /\ iter' = 1 - iter
    /\ UNCHANGED <<index, pc, parseVars>>

RunImport ==
    /\ Running
    /\ NextUnit.id \in DOMAIN index
    /\ FitsDepth
    /\ LET item == index[NextUnit.id]
       IN  /\ item.kind = "Import" /\ ~item.glob
           /\ LET r == process_import_item(Tail(work_queue), output,
                                           missing_ids, NextUnit, item)
              IN  /\ work_queue' = r.work_queue
                  /\ output' = r.output
                  /\ missing_ids' = r.missing
    /\ iter' = 1 - iter
    /\ UNCHANGED <<index, pc, parseVars>>

RunImpl ==
    /\ Running
    /\ NextUnit.id \in DOMAIN index
    /\ FitsDepth
    /\ LET item == index[NextUnit.id]
       IN  /\ item.kind = "Impl"
           /\ LET r == process_impl_item(Tail(work_queue), output, NextUnit, item)
              IN  /\ work_queue' = r.work_queue
                  /\ output' = r.output
    /\ iter' = 1 - iter
    /\ UNCHANGED <<index, missing_ids, pc, parseVars>>

RunOther ==
    /\ Running
    /\ NextUnit.id \in DOMAIN index
    /\ FitsDepth
    /\ LET item == index[NextUnit.id]
       IN  /\ item.kind \notin {"Import", "Impl"}
           /\ LET r == process_item_unless_recursive(Tail(work_queue), output,
                                                     NextUnit, item, None)
              IN  /\ work_queue' = r.work_queue
                  /\ output' = r.output
    /\ iter' = 1 - iter
    /\ UNCHANGED <<index, missing_ids, pc, parseVars>>

\* The ancestor path outgrew MaxDepth: the traversal is on a path that grows
\* without end and is cut off here.
RunExhausted ==
    /\ Running
    /\ NextUnit.id \in DOMAIN index
    /\ ~FitsDepth
    /\ pc' = "exhausted"
    /\ UNCHANGED <<index, procVars, parseVars>>

\* Mutant: the loop is left while units are still queued.
RunReturn_early ==
    /\ pc = "run"
    /\ pc' = "done"
    /\ UNCHANGED <<index, procVars, parseVars>>

\* pop_front returns None: run returns.
RunReturn ==
    /\ pc = "run"
    /\ work_queue = <<>>
    /\ pc' = "done"
    /\ UNCHANGED <<index, procVars, parseVars>>

----------------------------------------------------------------------------
(* rust_types.rs                                                           *)

\* Mutant: the typeshare name I54 is taken for the 64-bit integer.
SpecialRustTypeTable_merged ==
    ("String" :> "String") @@ ("char" :> "Char") @@
    ("i8" :> "I8") @@ ("i16" :> "I16") @@ ("i32" :> "I32") @@ ("i64" :> "I64") @@
    ("u8" :> "U8") @@ ("u16" :> "U16") @@ ("u32" :> "U32") @@ ("u64" :> "U64") @@
    ("isize" :> "ISize") @@ ("usize" :> "USize") @@ ("bool" :> "Bool") @@
    ("f32" :> "F32") @@ ("f64" :> "F64") @@ ("I54" :> "I64") @@ ("U53" :> "U53")

\* impl TryFrom<&str> for SpecialRustType: the name table.
SpecialRustTypeTable ==
    ("String" :> "String") @@ ("char" :> "Char") @@
    ("i8" :> "I8") @@ ("i16" :> "I16") @@ ("i32" :> "I32") @@ ("i64" :> "I64") @@
    ("u8" :> "U8") @@ ("u16" :> "U16") @@ ("u32" :> "U32") @@ ("u64" :> "U64") @@
    ("isize" :> "ISize") @@ ("usize" :> "USize") @@ ("bool" :> "Bool") @@
    ("f32" :> "F32") @@ ("f64" :> "F64") @@ ("I54" :> "I54") @@ ("U53" :> "U53")

\* Mutant: a name outside the table is taken for the unit type.
SpecialRustType_try_from_lenient(value) ==
    IF value \in DOMAIN SpecialRustTypeTable
    THEN [ok |-> TRUE, v |-> SpecialRustTypeTable[value]]
    ELSE [ok |-> TRUE, v |-> "Unit"]

SpecialRustType_try_from(value) ==
    IF value \in DOMAIN SpecialRustTypeTable
    THEN [ok |-> TRUE, v |-> SpecialRustTypeTable[value]]
    ELSE [ok |-> FALSE, v |-> value]

RustType_Special(sp) == [rt |-> "Special", v |-> sp]

RustStruct_new(id) == [id |-> id, fields |-> <<>>]
RustField(id, ty) == [id |-> id, ty |-> ty]

----------------------------------------------------------------------------
(* parser.rs: parse, find_impls, Visitor::visit_item, Visitor::visit_type. *)
(* The recursion is unfolded into a stack of frames, one call or one loop  *)
(* iteration per step.  A step ends in one of three ways: it goes on with  *)
(* new frames and new parsed_data, it returns Err (the `?` operator hands  *)
(* the error up to parse's caller), or it panics.                          *)

Go(frames, data) == [o |-> "go", frames |-> frames, data |-> data]
Bail(msg) == [o |-> "err", msg |-> msg]
Panic(why) == [o |-> "panic", why |-> why]

ItemFrame(level, name, parent, id) ==
    [f |-> "Item", level |-> level, name |-> name, parent |-> parent, id |-> id]
\* `for id in ids`: loop is "StructFields", "Variants", "TupleFields" or
\* "VariantFields".
LoopFrame(loop, level, parent, ids) ==
    [f |-> "Loop", loop |-> loop, level |-> level, parent |-> parent, ids |-> ids]
\* A visit_type call; field is Some(<<field id, parent>>) when the caller is
\* the StructField arm, which pushes a RustField for a Some result.
TypeFrame(level, name, parent, ty, field) ==
    [f |-> "Type", level |-> level, name |-> name, parent |-> parent,
     ty |-> ty, field |-> field]
\* `for (i, arg) in args.iter().enumerate()`, for generic arguments and for
\* the elements of a tuple type.
ArgsFrame(level, parent, args, i) ==
    [f |-> "Args", level |-> level, parent |-> parent, args |-> args, i |-> i]
FindImplsFrame(trait_name, filter, rest) ==
    [f |-> "FindImpls", trait_name |-> trait_name, filter |-> filter, rest |-> rest]
RootsFrame(parent, slots) ==
    [f |-> "Roots", parent |-> parent, slots |-> slots]

PrivateFieldsMsg(name) ==
    "The " \o name \o
    " struct has private fields. You may need to make them public to use them in your code."

SerdeSkipAttr == "#[serde(skip)]"

\* Mutant: the flag is honoured for structs only.
has_stripped_fields_of_struct(item) ==
    item.kind = "Struct" /\ item.fields_stripped

\* The fields_stripped test of the StructKind::Plain and VariantKind::Struct
\* arms.
has_stripped_fields(item) == item.fields_stripped

\* visit_item(level, name, parent, id)
visit_item(fr, data) ==
    IF fr.id \notin DOMAIN index THEN Go(<<>>, data)
    ELSE
    LET item == index[fr.id]
    IN  CASE item.kind = "Struct" /\ item.skind = "Plain" ->
                IF has_stripped_fields(item)
                THEN Bail(PrivateFieldsMsg(fr.name))
                ELSE Go(<<LoopFrame("StructFields", fr.level, fr.id, item.fields)>>,
                        [data EXCEPT !.structs =
                            IF fr.id \in DOMAIN @ THEN @
                            ELSE @ @@ (fr.id :> RustStruct_new(fr.id))])
          [] item.kind = "Enum" ->
                Go(<<LoopFrame("Variants", fr.level, fr.id, item.items)>>, data)
          [] item.kind = "StructField" ->
                Go(<<TypeFrame(fr.level, "", fr.id, item.ty[1],
                               Some(<<fr.id, fr.parent>>))>>, data)
          [] item.kind = "Variant" /\ item.skind = "Tuple" ->
                Go(<<LoopFrame("TupleFields", fr.level, fr.id, item.fields)>>, data)
          [] item.kind = "Variant" /\ item.skind = "Struct" ->
                IF has_stripped_fields(item)
                THEN Bail(PrivateFieldsMsg(fr.name))
                ELSE Go(<<LoopFrame("VariantFields", fr.level, fr.id, item.fields)>>,
                        data)
          [] OTHER -> Go(<<>>, data)

\* One iteration of a loop over field or variant Ids: `&crate_.index[id]`
\* panics on an absent Id; an unnamed item is skipped; a variant carrying
\* #[serde(skip)] is skipped.
visit_loop(fr, data) ==
    IF fr.ids = <<>> THEN Go(<<>>, data)
    ELSE
    LET rest == [fr EXCEPT !.ids = Tail(fr.ids)]
        head == Head(fr.ids)
    IN  IF fr.loop = "TupleFields" /\ head = None THEN Go(<<rest>>, data)
        ELSE
        LET id == IF fr.loop = "TupleFields" THEN head[1] ELSE head
        IN  IF id \notin DOMAIN index THEN Panic("index")
            ELSE IF index[id].name = None THEN Go(<<rest>>, data)
            ELSE IF /\ fr.loop = "Variants"
                    /\ \E a \in 1..Len(index[id].attrs) :
                          index[id].attrs[a] = SerdeSkipAttr
                 THEN Go(<<rest>>, data)
            ELSE Go(<<ItemFrame(fr.level + 1, index[id].name[1], fr.parent, id),
                      rest>>, data)

\* Mutant: a type with no portable form is an error.
visit_type_rejecting(fr, data) ==
    LET ty == fr.ty
    IN  CASE ty.t = "ResolvedPath" ->
                Go(<<ItemFrame(fr.level + 1, fr.name, fr.parent, ty.id)>> \o
                   (IF ty.args # None /\ ty.args[1].g = "AngleBracketed"
                    THEN <<ArgsFrame(fr.level, fr.parent, ty.args[1].args, 0)>>
                    ELSE <<>>),
                   data)
          [] ty.t = "Primitive" ->
                LET r == SpecialRustType_try_from(ty.name)
                IN  IF ~r.ok THEN Bail(r.v)
                    ELSE IF fr.field = None THEN Go(<<>>, data)
                    ELSE IF fr.field[1][2] \notin DOMAIN data.structs
                         THEN Panic("unwrap")
                    ELSE Go(<<>>,
                            [data EXCEPT !.structs[fr.field[1][2]].fields =
                                Append(@, RustField(fr.field[1][1],
                                                    RustType_Special(r.v)))])
          [] ty.t = "Tuple" ->
                Go(<<ArgsFrame(fr.level, fr.parent,
                               [i \in 1..Len(ty.types) |-> TypeArg(ty.types[i])],
                               0)>>, data)
          [] OTHER -> Bail(ty.t)

\* visit_type(level, name, parent, ty)
visit_type(fr, data) ==
    LET ty == fr.ty
    IN  CASE ty.t = "ResolvedPath" ->
                Go(<<ItemFrame(fr.level + 1, fr.name, fr.parent, ty.id)>> \o
                   (IF ty.args # None /\ ty.args[1].g = "AngleBracketed"
                    THEN <<ArgsFrame(fr.level, fr.parent, ty.args[1].args, 0)>>
                    ELSE <<>>),
                   data)
          [] ty.t = "Primitive" ->
                LET r == SpecialRustType_try_from(ty.name)
                IN  IF ~r.ok THEN Bail(r.v)
                    ELSE IF fr.field = None THEN Go(<<>>, data)
                    ELSE IF fr.field[1][2] \notin DOMAIN data.structs
                         THEN Panic("unwrap")
                    ELSE Go(<<>>,
                            [data EXCEPT !.structs[fr.field[1][2]].fields =
                                Append(@, RustField(fr.field[1][1],
                                                    RustType_Special(r.v)))])
          [] ty.t = "Tuple" ->
                Go(<<ArgsFrame(fr.level, fr.parent,
                               [i \in 1..Len(ty.types) |-> TypeArg(ty.types[i])],
                               0)>>, data)
          [] OTHER -> Go(<<>>, data)

\* Mutant: an argument that is not a type is passed over.
visit_args_skipping(fr, data) ==
    IF fr.args = <<>> THEN Go(<<>>, data)
    ELSE
    LET arg == Head(fr.args)
        rest == [fr EXCEPT !.args = Tail(fr.args), !.i = fr.i + 1]
    IN  IF arg.a # "Type" THEN Go(<<rest>>, data)
        ELSE Go(<<TypeFrame(fr.level, ToString(fr.i), fr.parent, arg.ty, None),
                  rest>>, data)

\* One iteration over generic arguments (or tuple elements).
visit_args(fr, data) ==
    IF fr.args = <<>> THEN Go(<<>>, data)
    ELSE
    LET arg == Head(fr.args)
        rest == [fr EXCEPT !.args = Tail(fr.args), !.i = fr.i + 1]
    IN  IF arg.a # "Type" THEN Panic("todo")
        ELSE Go(<<TypeFrame(fr.level, ToString(fr.i), fr.parent, arg.ty, None),
                  rest>>, data)

\* Mutant: the slot names asked for are not looked at.
RECURSIVE assoc_types_unfiltered(_, _)
assoc_types_unfiltered(items, filter) ==
    IF items = <<>> THEN <<>>
    ELSE
    LET item == index[Head(items)]
        keep == /\ item.name # None
                /\ item.kind = "AssocType"
                /\ item.default # None
                /\ item.default[1].t = "ResolvedPath"
    IN  (IF keep THEN <<<<item.name[1], item.default[1].id>>>> ELSE <<>>)
        \o assoc_types_unfiltered(Tail(items), filter)

\* find_impls: the associated-type slots of one impl block that are named in
\* filter and default to a resolved path.  `&crate_.index[id]` panics on an
\* absent member Id.
RECURSIVE assoc_types(_, _)
assoc_types(items, filter) ==
    IF items = <<>> THEN <<>>
    ELSE
    LET item == index[Head(items)]
        keep == /\ item.name # None
                /\ Occurs(filter, item.name[1])
                /\ item.kind = "AssocType"
                /\ item.default # None
                /\ item.default[1].t = "ResolvedPath"
    IN  (IF keep THEN <<<<item.name[1], item.default[1].id>>>> ELSE <<>>)
        \o assoc_types(Tail(items), filter)

is_impl_of(v, trait_name) ==
    /\ v.kind = "Impl"
    /\ v.trait_ # None
    /\ v.for_[1].t = "ResolvedPath"
    /\ v.trait_[1].name = trait_name

\* One iteration of `for (id, associated_items) in find_impls(..)`, up to
\* the println! that reads crate_.paths[id].
find_impls_step(fr, data) ==
    IF fr.rest = <<>> THEN Go(<<>>, data)
    ELSE
    LET v == index[Head(fr.rest)]
        rest == [fr EXCEPT !.rest = Tail(fr.rest)]
    IN  IF ~is_impl_of(v, fr.trait_name) THEN Go(<<rest>>, data)
        ELSE IF \E i \in 1..Len(v.items) : v.items[i] \notin DOMAIN index
             THEN Panic("index")
        ELSE IF v.for_[1].id \notin paths THEN Panic("index")
        ELSE Go(<<RootsFrame(v.for_[1].id, assoc_types(v.items, fr.filter)),
                  rest>>, data)

\* One iteration of `for (name, id) in associated_items`.
roots_step(fr, data) ==
    IF fr.slots = <<>> THEN Go(<<>>, data)
    ELSE Go(<<ItemFrame(0, Head(fr.slots)[1], fr.parent, Head(fr.slots)[2]),
              [fr EXCEPT !.slots = Tail(fr.slots)]>>, data)

\* parse's two loops, in program order.
parse_frames(impl_order) ==
    <<FindImplsFrame("Effect", <<"Ffi">>, impl_order),
      FindImplsFrame("App", <<"Event", "ViewModel">>, impl_order)>>

\* One step of the call or loop on top of the stack st.
Step(st, data) ==
    LET fr == Head(st)
    IN  CASE fr.f = "FindImpls" -> find_impls_step(fr, data)
          [] fr.f = "Roots" -> roots_step(fr, data)
          [] fr.f = "Item" -> visit_item(fr, data)
          [] fr.f = "Loop" -> visit_loop(fr, data)
          [] fr.f = "Type" -> visit_type(fr, data)
          [] fr.f = "Args" -> visit_args(fr, data)

\* parse as a function of the index order: what it returns, or how it ends.
RECURSIVE run_from(_, _)
run_from(st, data) ==
    IF st = <<>> THEN [tag |-> "Ok", data |-> data]
    ELSE IF Head(st).f = "Item" /\ Head(st).level > MaxLevel
         THEN [tag |-> "Exhausted"]
    ELSE LET r == Step(st, data)
         IN  CASE r.o = "go" -> run_from(r.frames \o Tail(st), r.data)
               [] r.o = "err" -> [tag |-> "Err", msg |-> r.msg]
               [] r.o = "panic" -> [tag |-> "Panic", why |-> r.why]

parse(impl_order) == run_from(parse_frames(impl_order), NoData)

Parsing == pc = "parse" /\ stack # <<>>
Top == Head(stack)

\* The effect of one step's outcome on the parser's state.
Continue(r) ==
    /\ \/ /\ r.o = "go"
          /\ stack' = r.frames \o Tail(stack)
          /\ parsed_data' = r.data
          /\ UNCHANGED <<pc, result>>
       \/ /\ r.o = "err"
          /\ pc' = "err"
          /\ result' = [tag |-> "Err", msg |-> r.msg]
          /\ UNCHANGED <<stack, parsed_data>>
       \/ /\ r.o = "panic"
          /\ pc' = "panic"
          /\ result' = [tag |-> "Panic", why |-> r.why]
          /\ UNCHANGED <<stack, parsed_data>>
    /\ UNCHANGED <<index, paths, order, procVars>>

ParseFindImpls ==
    /\ Parsing /\ Top.f = "FindImpls"
    /\ Continue(find_impls_step(Top, parsed_data))

ParseRoots ==
    /\ Parsing /\ Top.f = "Roots"
    /\ Continue(roots_step(Top, parsed_data))

ParseVisitItem ==
    /\ Parsing /\ Top.f = "Item" /\ Top.level <= MaxLevel
    /\ Continue(visit_item(Top, parsed_data))

ParseVisitLoop ==
    /\ Parsing /\ Top.f = "Loop"
    /\ Continue(visit_loop(Top, parsed_data))

ParseVisitType ==
    /\ Parsing /\ Top.f = "Type"
    /\ Continue(visit_type(Top, parsed_data))

ParseVisitArgs ==
    /\ Parsing /\ Top.f = "Args"
    /\ Continue(visit_args(Top, parsed_data))

\* The recursion went deeper than MaxLevel: it is on a cycle of the graph,
\* where every round adds frames and none returns.  The run is cut off
\* here; the program descends until the call stack overflows and the
\* process is aborted, and parse returns nothing.
ParseExhausted ==
    /\ Parsing /\ Top.f = "Item" /\ Top.level > MaxLevel
    /\ pc' = "exhausted"
    /\ UNCHANGED <<index, procVars, parseVars>>

\* Both loops ran to their end: Ok(visitor.parsed_data).
ParseReturn ==
    /\ pc = "parse" /\ stack = <<>>
    /\ pc' = "ok"
    /\ result' = [tag |-> "Ok", data |-> parsed_data]
    /\ UNCHANGED <<index, paths, order, stack, parsed_data, procVars>>

----------------------------------------------------------------------------
(* The symbol graphs the traversal is run on.  Every graph has the same    *)
(* nodes; the edges (module items, attached impls, import target, impl     *)
(* members) and the impl's classification inputs vary.  "x" is an Id that  *)
(* the graph references but does not contain.                              *)

SeqsUpTo1(S) == {<<>>} \cup {<<a>> : a \in S}
SeqsUpTo2(S) == SeqsUpTo1(S) \cup {<<a, b>> : a \in S, b \in S}

TypeS == ResolvedPath("S", "s", NoArgs)
InherentImpl(items) == Impl("p", FALSE, None, <<>>, None, TypeS, items)

MkIndex(mItems, nItems, sImpls, uTarget, uGlob, p) ==
    ("m" :> Module("m", "m", mItems)) @@
    ("n" :> Module("n", "n", nItems)) @@
    ("s" :> StructPlain("s", "S", <<"f">>, FALSE, sImpls)) @@
    ("f" :> StructField("f", "f", Primitive("u8"))) @@
    ("u" :> Import("u", "n", "alias", uTarget, uGlob)) @@
    ("p" :> p) @@
    ("k" :> Function("k", "k"))

\* Modules, re-exports and missing Ids in every combination.
ImportGraphs ==
    { MkIndex(mItems, nItems, sImpls, uTarget, uGlob, InherentImpl(<<"k">>)) :
        mItems \in SeqsUpTo2({"n", "s", "u", "x", "m"}),
        nItems \in SeqsUpTo1({"s", "u", "m", "n", "x"}),
        sImpls \in {<<>>, <<"p">>},
        uTarget \in {None} \cup {Some(t) : t \in {"x", "m", "n", "s", "p"}},
        uGlob \in BOOLEAN }

\* Implementation blocks with every classification input and member list.
ImplGraphs ==
    { MkIndex(mItems, <<>>, <<"p">>, Some("p"), FALSE,
              Impl("p", synthetic, blanket, attrs, trait_, TypeS, items)) :
        mItems \in {<<"s">>, <<"p">>, <<"u">>},
        synthetic \in BOOLEAN,
        blanket \in {None, Some(ResolvedPath("T", "x", NoArgs))},
        attrs \in {<<>>, <<"#[doc(hidden)]">>,
                   <<"#[doc(hidden)]", AutoDerivedAttr>>},
        trait_ \in {None, Some([name |-> "App", id |-> "x"])},
        items \in {<<"k">>, <<"p">>, <<"s">>} }

\* A struct with two fields and two retained blocks, in either declared
\* order, next to a sibling module that holds an item of one of the rarer
\* kinds.
SiblingGraphs ==
    { ("s" :> StructPlain("s", "S", sFields, FALSE, sImpls)) @@
      ("g" :> StructField("g", "g", Primitive("u8"))) @@
      ("q" :> Impl("q", FALSE, None, <<>>, Some([name |-> "App", id |-> "x"]),
                   TypeS, <<>>)) @@
      ("e" :> BaseItem("e", eKind, Some("k"))) @@
      MkIndex(mItems, <<"e">>, <<>>, None, FALSE, InherentImpl(<<"k">>)) :
        eKind \in {"ForeignType", "OpaqueTy", "TraitAlias"},
        mItems \in {<<"s", "n">>, <<"n", "s">>},
        sFields \in {<<"f", "g">>, <<"g", "f">>},
        sImpls \in {<<"p", "q">>, <<"q", "p">>} }

Graphs == ImportGraphs \cup ImplGraphs \cup SiblingGraphs

Seed == "m"

Init ==
    /\ index \in Graphs
    /\ work_queue = add_to_work_queue(<<>>, <<>>, Seed)
    /\ output = <<>>
    /\ missing_ids = <<>>
    /\ pc = "run"
    /\ iter = 0
    /\ paths = {}
    /\ order = <<>>
    /\ stack = <<>>
    /\ parsed_data = NoData
    /\ result = NoResult

Next ==
    \/ RunMissing
    \/ RunImportGlob
    \/ RunImport
    \/ RunImpl
    \/ RunOther
    \/ RunExhausted
    \/ RunReturn

Spec == Init /\ [][Next]_vars

\* run is a plain loop: as long as a step is possible, one is taken.
FairSpec == Spec /\ WF_vars(Next)

----------------------------------------------------------------------------
(* The crates parse is run on: an App impl with the slots Event (an enum)  *)
(* and ViewModel (a struct), an Effect impl with the slot Ffi, and the     *)
(* data types behind them.  The stripped flags, the variant's shape, the   *)
(* field types, the Ffi target and the index order vary.                   *)

TypeInner == ResolvedPath("Inner", "in", NoArgs)

\* Primitive names: the table's own, and names that are close to one of
\* them or are primitives the table does not have.
PrimitiveTokens ==
    DOMAIN SpecialRustTypeTable \cup {"str", "u128", "U8", "string"}

FieldTypes ==
    { Primitive(n) : n \in PrimitiveTokens } \cup
    { TypeInner,
      ResolvedPath("Vec", "vec", AngleBracketed(<<TypeArg(TypeInner)>>)),
      ResolvedPath("Cow", "cow", AngleBracketed(<<OtherArg("Lifetime"),
                                                  TypeArg(TypeInner)>>)),
      ResolvedPath("Box", "box", AngleBracketed(<<TypeArg(
            ResolvedPath("Vec", "vec", AngleBracketed(<<TypeArg(TypeInner)>>)))>>)),
      ResolvedPath("Box", "box", AngleBracketed(<<TypeArg(
            ResolvedPath("Model", "vm", NoArgs))>>)),
      ResolvedPath("Arr", "arr", AngleBracketed(<<TypeArg(Primitive("u8")),
                                                  OtherArg("Const")>>)),
      ResolvedPath("Vec", "vec", AngleBracketed(<<OtherArg("Infer")>>)),
      ResolvedPath("Map", "map", AngleBracketed(<<TypeArg(Primitive("str")),
                                                  OtherArg("Lifetime")>>)),
      ResolvedPath("Fn", "fn", Parenthesized),
      ResolvedPath("Pair", "tp", NoArgs),
      ResolvedPath("Marker", "un", NoArgs),
      ResolvedPath("Alias", "al", NoArgs),
      ResolvedPath("Broken", "bk", NoArgs),
      ResolvedPath("Choice", "eb", NoArgs),
      TupleType(<<Primitive("u8"), TypeInner>>),
      OtherType("Generic") }
    \cup {OtherType(t) : t \in NonPortableShapes}

\* The variant Go of enum Event: its kind, its stripped flag and the type
\* of its one field.
VariantShapes ==
    { <<"Plain", <<>>, FALSE, Primitive("u8")>>,
      <<"Tuple", <<None, Some("vf")>>, FALSE, TypeInner>>,
      <<"Tuple", <<Some("vf")>>, FALSE, OtherType("Slice")>>,
      <<"Struct", <<"vf">>, FALSE, TypeInner>>,
      <<"Struct", <<"vf">>, FALSE, Primitive("u8")>>,
      <<"Tuple", <<Some("vf")>>, FALSE, Primitive("bool")>>,
      <<"Struct", <<"vf">>, FALSE, OtherType("BorrowedRef")>>,
      <<"Struct", <<"vf">>, TRUE, TypeInner>> }

\* An Id the crate refers to and its index does not hold.
AbsentId == "zz"

MkCrate(vmName, vmStripped, inStripped, va, t1, t2, ffi, ib) ==
    ("ia" :> Impl("ia", FALSE, None, <<>>, Some([name |-> "App", id |-> "tapp"]),
                  ResolvedPath("MyApp", "app", NoArgs), <<"ae", "av">>)) @@
    ("ie" :> Impl("ie", FALSE, None, <<>>, Some([name |-> "Effect", id |-> "teff"]),
                  ResolvedPath("MyEffect", "eff", NoArgs), <<"af">>)) @@
    ("ae" :> AssocType("ae", "Event", Some(ResolvedPath("Event", "ev", NoArgs)))) @@
    ("av" :> AssocType("av", "ViewModel", Some(ResolvedPath(vmName, "vm", NoArgs)))) @@
    ("af" :> AssocType("af", "Ffi", ffi)) @@
    ("ax" :> AssocType("ax", "Other", Some(TypeInner))) @@
    ("ak" :> Function("ak", "ViewModel")) @@
    ("ib" :> ib) @@
    ("ev" :> Enum("ev", "Event", <<"va", "vb">>)) @@
    ("va" :> Variant("va", "Go", <<>>, va[1], va[2], va[3])) @@
    ("vb" :> Variant("vb", "Stop", <<>>, "Plain", <<>>, FALSE)) @@
    ("vf" :> StructField("vf", "n", va[4])) @@
    ("vm" :> StructPlain("vm", vmName, <<"f1", "f2">>, vmStripped, <<>>)) @@
    ("f1" :> StructField("f1", "count", t1)) @@
    ("f2" :> StructField("f2", "inner", t2)) @@
    ("in" :> StructPlain("in", "Inner", <<"f3">>, inStripped, <<>>)) @@
    ("f3" :> StructField("f3", "x", Primitive("bool"))) @@
    ("tp" :> StructOf("tp", "Pair", "Tuple", <<None, Some("f3")>>)) @@
    ("un" :> StructOf("un", "Marker", "Unit", <<>>)) @@
    ("al" :> TypeAlias("al", "Alias", Primitive("u8"))) @@
    ("bk" :> StructPlain("bk", "Broken", <<"f3", AbsentId>>, FALSE, <<>>)) @@
    ("eb" :> Enum("eb", "Choice", <<"vb", AbsentId>>))

TraitImpl(id, trait_name, for_, items) ==
    Impl(id, FALSE, None, <<>>, Some([name |-> trait_name, id |-> "t"]),
         for_, items)

TypeMyApp == ResolvedPath("MyApp", "app", NoArgs)

\* `impl App for &MyApp`: the implementing type is not a path.
RefImpl == TraitImpl("ib", "App", OtherType("BorrowedRef"), <<"ae", "av">>)

\* The data types in every combination, with the third block fixed.
TypeCrates ==
    { MkCrate(vmName, vmStripped, inStripped, va, t1, t2, Some(ffi), RefImpl) :
        vmName \in {"Model", "ViewModel"},
        vmStripped \in BOOLEAN,
        inStripped \in BOOLEAN,
        va \in VariantShapes,
        t1 \in FieldTypes,
        t2 \in {Primitive("bool"), TypeInner},
        ffi \in {TypeInner, ResolvedPath("Model", "vm", NoArgs)} }

\* What the third index entry can be: a block of the trait for a type that
\* is not a path, a block of another trait, an inherent block, a second
\* block of the trait with members of every kind, or no block at all.
ThirdEntries ==
    { RefImpl,
      TraitImpl("ib", "Clone", TypeMyApp, <<"ae">>),
      Impl("ib", FALSE, None, <<>>, None, TypeMyApp, <<"av">>),
      TraitImpl("ib", "App", TypeMyApp, <<"ax", "ak", "av">>),
      TraitImpl("ib", "Effect", TypeMyApp, <<"af", "ae">>),
      TraitImpl("ib", "App", TypeMyApp, <<"av", AbsentId>>),
      Function("ib", "App") }

\* The implementation blocks and the Ffi slot's default in every
\* combination, with the data types fixed but for the stripped flags.
ImplCrates ==
    { MkCrate("Model", vmStripped, FALSE, va, Primitive("u8"), Primitive("bool"),
              ffi, ib) :
        vmStripped \in BOOLEAN,
        va \in {<<"Plain", <<>>, FALSE, Primitive("u8")>>,
                <<"Struct", <<"vf">>, TRUE, TypeInner>>,
                <<"Struct", <<"vf", AbsentId>>, FALSE, TypeInner>>,
                <<"Tuple", <<Some(AbsentId)>>, FALSE, TypeInner>>},
        ffi \in {None, Some(Primitive("u8")), Some(OtherType("Generic")),
                 Some(TypeInner)},
        ib \in ThirdEntries }

Crates == TypeCrates \cup ImplCrates

CratePaths == {"app", "eff", "ev", "vm", "in"}

\* The orders in which `crate_.index.iter()` hands out the blocks: the
\* index is a HashMap, its iteration order is not fixed by its content.
IndexOrders == {<<"ia", "ib", "ie">>, <<"ie", "ib", "ia">>}

ParseInit ==
    /\ index \in Crates
    /\ paths = CratePaths
    /\ order \in IndexOrders
    /\ stack = parse_frames(order)
    /\ parsed_data = NoData
    /\ result = NoResult
    /\ pc = "parse"
    /\ work_queue = <<>>
    /\ output = <<>>
    /\ missing_ids = <<>>
    /\ iter = 0

ParseNext ==
    \/ ParseFindImpls
    \/ ParseRoots
    \/ ParseVisitItem
    \/ ParseVisitLoop
    \/ ParseVisitType
    \/ ParseVisitArgs
    \/ ParseExhausted
    \/ ParseReturn

ParseSpec == ParseInit /\ [][ParseNext]_vars

\* parse is sequential code: as long as a step is possible, one is taken.
FairParseSpec == ParseSpec /\ WF_vars(ParseNext)

----------------------------------------------------------------------------
(* The order of the final public items.  An output item is its path; its   *)
(* sortable path has one (priority, name) pair per component.              *)

\* NameableItem::name: the override, else the item's declared name, else
\* the empty name.
nameable_name(c) ==
    IF c.overridden_name # None THEN c.overridden_name[1]
    ELSE IF index[c.id].name # None THEN index[c.id].name[1]
    ELSE ""

\* NameableItem::sortable_name
sortable_name(c) == <<c.sorting_prefix, nameable_name(c)>>

\* Mutant: hidden components are left out, as they are when rendering.
sortable_path_of_visible(item) ==
    LET shown == SelectSeq(item, LAMBDA c : ~c.hide)
    IN  [i \in 1..Len(shown) |-> sortable_name(shown[i])]

\* IntermediatePublicItem::sortable_path
sortable_path(item) == [i \in 1..Len(item) |-> sortable_name(item[i])]

\* The names the graphs can produce, in the order of str's Ord (bytewise:
\* '<' before the capitals, the capitals before the small letters, ':'
\* before '>').
NameOrder ==
    << "", "<<>>", "<<S>>", "<<f>>", "<<k>>", "<<m>>", "<<n::*>>", "<<n>>",
       "S", "alias", "f", "g", "k", "m", "n" >>

str_rank(name) == CHOOSE i \in 1..Len(NameOrder) : NameOrder[i] = name

pair_lt(x, y) ==
    \/ x[1] < y[1]
    \/ x[1] = y[1] /\ str_rank(x[2]) < str_rank(y[2])

\* Lexicographic order of sortable paths; a proper prefix comes first.
RECURSIVE path_lt(_, _)
path_lt(p, q) ==
    IF q = <<>> THEN FALSE
    ELSE IF p = <<>> THEN TRUE
    ELSE IF pair_lt(Head(p), Head(q)) THEN TRUE
    ELSE IF pair_lt(Head(q), Head(p)) THEN FALSE
    ELSE path_lt(Tail(p), Tail(q))

\* One insertion of a stable sort: x goes behind everything not above it.
RECURSIVE insert_by_path(_, _)
insert_by_path(sorted, x) ==
    IF sorted = <<>> THEN <<x>>
    ELSE IF path_lt(sortable_path(x), sortable_path(Head(sorted)))
         THEN <<x>> \o sorted
    ELSE <<Head(sorted)>> \o insert_by_path(Tail(sorted), x)

\* The assembler's sort by sortable path.
RECURSIVE sort_by_sortable_path(_)
sort_by_sortable_path(items) ==
    IF items = <<>> THEN <<>>
    ELSE insert_by_path(sort_by_sortable_path(SubSeq(items, 1, Len(items) - 1)),
                        items[Len(items)])

\* The kinds the assembler keeps; modules, imports, functions, traits,
\* implementation blocks, statics, macros and associated items were
\* scaffolding of the traversal.
DataShapeKinds ==
    {"Struct", "Enum", "StructField", "Variant", "Primitive", "TypeAlias",
     "Union", "ForeignType", "Constant"}

is_data_shape(item) == index[item[Len(item)].id].kind \in DataShapeKinds

\* struct PublicApi and its accessor: items() hands out the stored items
\* as they are, in the stored order.
PublicApi(items, missing) ==
    [items |-> items, missing_item_ids |-> missing]
PublicApi_items(api) == api.items

\* The assembler: the traversal's output filtered, then sorted, packaged
\* with the missing Ids.
assemble(out, missing) ==
    PublicApi(sort_by_sortable_path(SelectSeq(out, is_data_shape)), missing)

\* The assembled list of the traversal's output.
public_items == PublicApi_items(assemble(output, missing_ids))

----------------------------------------------------------------------------
(* Claims about ItemProcessor                                              *)

Done == pc = "done"
ItemsOf(id) == IF id \in DOMAIN index THEN index[id].items ELSE <<>>

\* C1: run terminates on every finite graph and seed: whatever the edges
\* are, the work queue eventually becomes empty and run returns.
C1_RunTerminates == <>(pc = "done")

\* The names the traversal synthesises: "<<name>>" and "<<source::*>>".
IsSyntheticName(name) ==
    \E i \in DOMAIN index :
        name = RecursionName(index[i]) \/ name = GlobName(index[i])

\* The seeded module m lists the import u once, and u's target is m itself.
SelfImport ==
    /\ index["u"].import_id = Some("m")
    /\ Count(index["m"].items, "u") = 1

\* Output entries for the import u directly under the seeded module.
SelfImportLeaves ==
    {i \in 1..Len(output) :
        /\ Len(output[i]) = 2
        /\ output[i][1].id = "m"
        /\ output[i][2].id = "u"}

\* No output path continues below a component that is the import u.
NothingBelowImport ==
    \A i \in 1..Len(output) :
        \A j \in 1..Len(output[i]) - 1 : output[i][j].id # "u"

\* C2 (as stated): a seeded module that imports itself, by a non-glob or a
\* glob import, ends with exactly one leaf for that import, and the leaf has
\* a synthetic "<<...>>" name and nothing below it.
C2_SelfImportSyntheticLeaf ==
    (Done /\ SelfImport) =>
        /\ Cardinality(SelfImportLeaves) = 1
        /\ \A i \in SelfImportLeaves :
              /\ output[i][2].overridden_name # None
              /\ IsSyntheticName(output[i][2].overridden_name[1])
        /\ NothingBelowImport

\* C2 (amended): run terminates and the output has exactly one leaf for the
\* self-import with nothing below it; a glob import's leaf is named
\* "<<source::*>>", a non-glob import's leaf is the import under its own
\* local name.
C2_SelfImportLeaf ==
    SelfImport =>
        <>(/\ Done
           /\ Cardinality(SelfImportLeaves) = 1
           /\ \A i \in SelfImportLeaves :
                 output[i][2].overridden_name =
                    Some(IF index["u"].glob
                         THEN "<<" \o index["u"].source \o "::*>>"
                         ELSE index["u"].import_name)
           /\ NothingBelowImport)

C2_Witness ==
    /\ Done
    /\ SelfImport
    /\ ~index["u"].glob
    /\ \E i \in SelfImportLeaves : output[i][2].overridden_name = Some("alias")

NoRepeat(path) ==
    \A i, j \in 1..Len(path) : path[i].id = path[j].id => i = j

IsRecursionLeaf(path) ==
    /\ path # <<>>
    /\ path[Len(path)].overridden_name =
          Some(RecursionName(index[path[Len(path)].id]))
    /\ InPath(SubSeq(path, 1, Len(path) - 1), path[Len(path)].id)

\* C3: in every state of run, no Id occurs at two positions of a queued
\* unit's parent path or of an output path; the one exception is the last
\* component of a recursion-guard leaf, which repeats an ancestor.
C3_NoIdRepeatsOnPath ==
    /\ \A q \in 1..Len(work_queue) : NoRepeat(work_queue[q].parent_path)
    /\ \A o \in 1..Len(output) :
          \/ NoRepeat(output[o])
          \/ /\ IsRecursionLeaf(output[o])
             /\ NoRepeat(SubSeq(output[o], 1, Len(output[o]) - 1))

\* Paths that reach t from the seeded module through modules only, and the
\* places where the non-glob import u of t is listed.
DeclaredIn(mod, t) == Occurs(ItemsOf(mod), t)
ReExports(t) ==
    /\ ~index["u"].glob
    /\ index["u"].import_id = Some(t)
    /\ t \in {"n", "s"}
    /\ \/ DeclaredIn("m", "u")
       \/ DeclaredIn("m", "n") /\ DeclaredIn("n", "u") /\ t # "n"
Declares(t) ==
    \/ DeclaredIn("m", t)
    \/ DeclaredIn("m", "n") /\ DeclaredIn("n", t) /\ t # "n"

\* C4: an Id reachable both as declared and through a non-glob re-export has,
\* after run, two distinct output items ending in it, and id_to_items maps
\* the Id to both.
C4_ReExportMultiplicity ==
    \A t \in {"n", "s"} :
        (Done /\ Declares(t) /\ ReExports(t)) =>
            /\ t \in DOMAIN id_to_items
            /\ \E i, j \in 1..Len(id_to_items[t]) :
                  LET a == output[id_to_items[t][i]]
                      b == output[id_to_items[t][j]]
                  IN  /\ a # b
                      /\ item_of(a) = t /\ item_of(b) = t
                      /\ a[Len(a)].overridden_name = None
                      /\ b[Len(b)].overridden_name = Some(index["u"].import_name)

C4_Witness ==
    /\ Done
    /\ index["m"].items = <<"s", "u">>
    /\ ReExports("s")
    /\ "s" \in DOMAIN id_to_items
    /\ Len(id_to_items["s"]) = 2

\* C5: every Id whose lookup failed is in the missing-Id collection exactly
\* once, however many work units or imports referenced it.
C5_MissingIdRecordedOnce ==
    \A i, j \in 1..Len(missing_item_ids) :
        missing_item_ids[i] = missing_item_ids[j] => i = j

\* C6: a dequeued unit whose Id is absent from the index adds no output and
\* enqueues nothing, its Id is recorded as missing, and run goes on with the
\* remaining units.
C6_MissingUnitDropped ==
    [][(Running /\ NextUnit.id \notin DOMAIN index) =>
          /\ output' = output
          /\ work_queue' = Tail(work_queue)
          /\ missing_ids' = Append(missing_ids, NextUnit.id)
          /\ pc' = "run"]_vars

C6_Witness ==
    /\ pc = "run"
    /\ ~Occurs(index["m"].items, "u")
    /\ missing_ids = <<"x">>
    /\ work_queue # <<>>
    /\ Len(output) = 1

IsPrunedImpl(id) ==
    /\ id \in DOMAIN index
    /\ index[id].kind = "Impl"
    /\ ImplKind_from(index[id]) \in {"Blanket", "AutoTrait", "AutoDerived"}

\* C7: after run no output path contains an implementation block classified
\* Blanket, AutoTrait or AutoDerived, so a member reachable only through
\* such a block has no output item.
C7_PrunedImplsAbsent ==
    Done =>
        \A o \in 1..Len(output) :
            \A c \in 1..Len(output[o]) : ~IsPrunedImpl(output[o][c].id)

\* C8: ImplKind::from follows the precedence: synthetic and not blanket is
\* AutoTrait; not synthetic and blanket is Blanket; otherwise an
\* #[automatically_derived] attribute gives AutoDerived; otherwise no trait
\* reference gives Inherent; otherwise Trait.
C8_ImplKindPrecedence ==
    \A id \in DOMAIN index :
        index[id].kind = "Impl" =>
            LET i == index[id]
                blanket == Len(i.blanket_impl) = 1
                derived == AutoDerivedAttr \in {i.attrs[a] : a \in DOMAIN i.attrs}
                traited == Len(i.trait_) = 1
                kind == ImplKind_from(i)
            IN  /\ (i.synthetic /\ ~blanket) => kind = "AutoTrait"
                /\ (~i.synthetic /\ blanket) => kind = "Blanket"
                /\ (i.synthetic = blanket /\ derived) => kind = "AutoDerived"
                /\ (i.synthetic = blanket /\ ~derived /\ ~traited)
                      => kind = "Inherent"
                /\ (i.synthetic = blanket /\ ~derived /\ traited)
                      => kind = "Trait"

\* Both markers at once and a derive attribute: the tie goes to AutoDerived,
\* and the block, attached to S, has been dropped by the traversal.
C8_Witness ==
    /\ Done
    /\ index["p"].synthetic
    /\ index["p"].blanket_impl # None
    /\ ImplKind_from(index["p"]) = "AutoDerived"
    /\ index["m"].items = <<"s">>
    /\ Len(output) = 3

----------------------------------------------------------------------------
(* Claims about parse                                                      *)

\* The call on top of the stack is visit_item on a plain struct or a
\* struct-style variant whose fields_stripped flag is set.
VisitsStripped ==
    /\ stack # <<>>
    /\ Top.f = "Item"
    /\ Top.level <= MaxLevel
    /\ Top.id \in DOMAIN index
    /\ \/ index[Top.id].kind = "Struct" /\ index[Top.id].skind = "Plain"
       \/ index[Top.id].kind = "Variant" /\ index[Top.id].skind = "Struct"
    /\ index[Top.id].fields_stripped

\* C9: when the traversal reaches a plain struct or struct-style variant
\* with stripped fields, parse returns an error and no ParsedData: nothing
\* collected so far is handed to the caller.
C9_StrippedFieldsFatal ==
    [][(pc = "parse" /\ VisitsStripped) =>
          /\ pc' = "err"
          /\ result'.tag = "Err"
          /\ DOMAIN result' = {"tag", "msg"}]_vars

\* Model was collected, then Inner turned out to be stripped.
C9_Witness ==
    /\ pc = "err"
    /\ VisitsStripped
    /\ Top.id = "in"
    /\ "vm" \in DOMAIN parsed_data.structs
    /\ result.tag = "Err"

\* C10: the error for a struct with stripped fields carries the declared
\* name of that struct, however the struct was reached.
C10_ErrorNamesStruct ==
    (pc = "err" /\ VisitsStripped /\ index[Top.id].kind = "Struct") =>
        result.msg = PrivateFieldsMsg(index[Top.id].name[1])

\* The call on top of the stack is visit_item on a tuple struct or a tuple
\* variant whose field list has a stripped position.
VisitsStrippedPosition ==
    /\ stack # <<>>
    /\ Top.f = "Item"
    /\ Top.level <= MaxLevel
    /\ Top.id \in DOMAIN index
    /\ index[Top.id].kind \in {"Struct", "Variant"}
    /\ index[Top.id].skind = "Tuple"
    /\ Occurs(index[Top.id].fields, None)

\* C11: reaching any data-bearing item whose fields are reported redacted,
\* by the fields_stripped flag or by a stripped position of a tuple struct
\* or tuple variant, makes parse return an error.
C11_RedactedItemsFatal ==
    [][(pc = "parse" /\ (VisitsStripped \/ VisitsStrippedPosition)) =>
          pc' = "err"]_vars

\* The call on top of the stack is visit_type on the raw type of a struct
\* field, and the type is one of the non-portable shapes.
VisitsNonPortableField ==
    /\ stack # <<>>
    /\ Top.f = "Type"
    /\ Top.field # None
    /\ Top.ty.t \in NonPortableShapes

\* C12: a struct field of a non-portable shape is left out: visit_type
\* returns to the loop over the remaining fields with nothing recorded and
\* no error raised.
C12_NonPortableFieldOmitted ==
    [][(pc = "parse" /\ VisitsNonPortableField) =>
          /\ pc' = "parse"
          /\ parsed_data' = parsed_data
          /\ stack' = Tail(stack)]_vars

\* Model { count: <non-portable>, inner: bool } came out with inner alone.
C12_Witness ==
    /\ pc = "ok"
    /\ index["f1"].ty[1].t \in NonPortableShapes
    /\ index["af"].default = Some(TypeInner)
    /\ result.data.structs["vm"].fields =
          <<RustField("f2", RustType_Special("Bool"))>>

\* The call on top of the stack is visit_type on a primitive type.
VisitsPrimitive ==
    /\ stack # <<>>
    /\ Top.f = "Type"
    /\ Top.ty.t = "Primitive"

\* C13: a primitive name that is one of the seventeen names of the table
\* raises no error and, as the type of a field of a recorded struct, is
\* recorded as Special of the table's variant; any other primitive name
\* makes parse return an error and records nothing.
C13_PrimitiveExactMatch ==
    /\ Cardinality(DOMAIN SpecialRustTypeTable) = 17
    /\ [][(pc = "parse" /\ VisitsPrimitive) =>
          IF Top.ty.name \in DOMAIN SpecialRustTypeTable
          THEN /\ pc' # "err"
               /\ (Top.field # None /\ Top.field[1][2] \in DOMAIN parsed_data.structs) =>
                     parsed_data'.structs[Top.field[1][2]].fields =
                        Append(parsed_data.structs[Top.field[1][2]].fields,
                               [id |-> Top.field[1][1],
                                ty |-> [rt |-> "Special",
                                        v |-> SpecialRustTypeTable[Top.ty.name]]])
          ELSE /\ pc' = "err"
               /\ result'.tag = "Err"
               /\ parsed_data' = parsed_data]_vars

\* Inner's bool field was recorded as Special(Bool); then the name U8,
\* which differs from a table name in case only, ended parse with an error.
C13_Witness ==
    /\ pc = "err"
    /\ VisitsPrimitive
    /\ Top.ty.name = "U8"
    /\ "in" \in DOMAIN parsed_data.structs
    /\ parsed_data.structs["in"].fields = <<[id |-> "f3", ty |-> [rt |-> "Special", v |-> "Bool"]]>>

\* The variant of RustType a resolved path is to be recorded as.
PortableFormOf(ty) ==
    IF ty.args # None /\ ty.args[1].g = "AngleBracketed" THEN "Generic"
    ELSE "Simple"

\* C14: in the model parse returns, every field of a recorded struct whose
\* raw type is a resolved path is recorded, as Simple when the path has no
\* generic arguments and as Generic when it has angle-bracketed ones.
C14_ResolvedPathRecorded ==
    pc = "ok" =>
        \A sid \in DOMAIN result.data.structs :
            \A i \in 1..Len(index[sid].fields) :
                LET fid == index[sid].fields[i]
                    ty == index[fid].ty[1]
                    fields == result.data.structs[sid].fields
                IN  ty.t = "ResolvedPath" =>
                        \E j \in 1..Len(fields) :
                            /\ fields[j].id = fid
                            /\ fields[j].ty.rt = PortableFormOf(ty)

\* The primitive names that normalize to the variant v.
NamesOf(v) ==
    {n \in PrimitiveTokens :
        SpecialRustType_try_from(n).ok /\ SpecialRustType_try_from(n).v = v}

\* C15: the Special variant recorded for a field of primitive type maps
\* back to the field's raw type name and to no other name: the table is
\* one-to-one.
C15_SpecialRoundTrip ==
    \A sid \in DOMAIN parsed_data.structs :
        \A j \in 1..Len(parsed_data.structs[sid].fields) :
            LET f == parsed_data.structs[sid].fields[j]
            IN  index[f.id].ty[1].t = "Primitive" =>
                    /\ f.ty.rt = "Special"
                    /\ NamesOf(f.ty.v) = {index[f.id].ty[1].name}

\* Model { count: I54, .. } was parsed and count recorded as Special(I54).
C15_Witness ==
    /\ pc = "ok"
    /\ index["f1"].ty[1] = Primitive("I54")
    /\ \E j \in 1..Len(result.data.structs["vm"].fields) :
          result.data.structs["vm"].fields[j] =
              [id |-> "f1", ty |-> [rt |-> "Special", v |-> "I54"]]

\* find_impls is about to look at the next entry of the index.
AtIndexEntry ==
    /\ stack # <<>>
    /\ Top.f = "FindImpls"
    /\ Top.rest # <<>>
    /\ \A i \in 1..Len(index[Head(Top.rest)].items) :
          index[Head(Top.rest)].items[i] \in DOMAIN index

DeclaresTrait(v, trait_name) ==
    /\ v.kind = "Impl"
    /\ v.trait_ # None
    /\ v.trait_[1].name = trait_name

\* The members of block v that are associated types named in filter and
\* default to a resolved path, each with the Id its default refers to.
ExpectedSlots(v, filter) ==
    LET keep(m) == /\ index[m].kind = "AssocType"
                   /\ index[m].name # None
                   /\ Occurs(filter, index[m].name[1])
                   /\ index[m].default # None
                   /\ index[m].default[1].t = "ResolvedPath"
        kept == SelectSeq(v.items, keep)
    IN  [i \in 1..Len(kept) |->
            <<index[kept[i]].name[1], index[kept[i]].default[1].id>>]

EntryYielded(v) ==
    /\ pc' = "parse"
    /\ stack' = <<RootsFrame(v.for_[1].id, ExpectedSlots(v, Top.filter)),
                  [Top EXCEPT !.rest = Tail(Top.rest)]>> \o Tail(stack)

EntrySkipped ==
    /\ pc' = "parse"
    /\ stack' = <<[Top EXCEPT !.rest = Tail(Top.rest)]>> \o Tail(stack)

\* C16 as stated: find_impls yields an entry for a block exactly if the
\* block's trait reference has the name asked for, and the entry's slot
\* list is the block's matching associated types with a resolved default.
C16_EntryPerTraitBlock ==
    [][(pc = "parse" /\ AtIndexEntry) =>
          LET v == index[Head(Top.rest)]
          IN  IF DeclaresTrait(v, Top.trait_name)
              THEN v.for_[1].t = "ResolvedPath" /\ EntryYielded(v)
              ELSE EntrySkipped]_vars

\* C16, amended: find_impls yields an entry for a block exactly if the
\* block's trait reference has the name asked for and the implementing
\* type is a resolved path; the entry's slot list is the block's matching
\* associated types with a resolved default, and a member of any other
\* form is left out without an error.
C16_EntryPerTraitBlockOfPath ==
    [][(pc = "parse" /\ AtIndexEntry) =>
          LET v == index[Head(Top.rest)]
          IN  IF DeclaresTrait(v, Top.trait_name) /\ v.for_[1].t = "ResolvedPath"
              THEN EntryYielded(v)
              ELSE EntrySkipped]_vars

\* The second App block of MyApp, with an associated type of another name,
\* a function named ViewModel and the ViewModel slot, gave one entry with
\* the ViewModel slot alone; the Effect block's Ffi slot, whose default is
\* not a path, was left out before that.
C16_Witness ==
    /\ pc = "parse"
    /\ stack # <<>>
    /\ Top = RootsFrame("app", <<<<"ViewModel", "vm">>>>)
    /\ index["ib"].items = <<"ax", "ak", "av">>
    /\ index["af"].default = Some(Primitive("u8"))

\* parse has ended by returning or by panicking.
ParseEnded == pc \in {"ok", "err", "panic"}

\* C17: whatever the order in which the index hands out its entries, parse
\* on the same graph ends the same way: with the same ParsedData, field
\* order included, or with the same error.
C17_IndexOrderIrrelevant ==
    ParseEnded => \A o \in IndexOrders : parse(o) = result

----------------------------------------------------------------------------
(* Output items: their last component and their (priority, name) pairs    *)

\* The last component of an output item.
Terminal(item) == item[Len(item)]

\* The (kind priority, name) pairs along the path of an output item.
PriorityNamePairs(item) ==
    [i \in 1..Len(item) |->
        <<item[i].sorting_prefix,
          IF item[i].overridden_name # None THEN item[i].overridden_name[1]
          ELSE IF index[item[i].id].name # None THEN index[item[i].id].name[1]
          ELSE "">>]

----------------------------------------------------------------------------
(* Further claims about parse                                              *)

\* C19: in the model parse returns, no struct lists a field Id twice,
\* however often the traversal reached the struct.
C19_FieldsRecordedOnce ==
    pc = "ok" =>
        \A sid \in DOMAIN result.data.structs :
            \A i, j \in 1..Len(result.data.structs[sid].fields) :
                result.data.structs[sid].fields[i].id =
                    result.data.structs[sid].fields[j].id => i = j

\* C20: parse terminates on every finite graph, self-referential structs
\* included: every run ends by returning Ok or Err (or by a panic), and
\* never descends without end.
C20_ParseTerminates == <>ParseEnded

\* The step at hand reads an Id that the index does not hold: the next Id
\* of a struct's field list, an enum's variant list or a variant's field
\* list, or a member of a block of the trait asked for.
ReadsAbsentId ==
    /\ stack # <<>>
    /\ \/ /\ Top.f = "Loop"
          /\ Top.ids # <<>>
          /\ IF Top.loop = "TupleFields"
             THEN Head(Top.ids) # None /\ Head(Top.ids)[1] \notin DOMAIN index
             ELSE Head(Top.ids) \notin DOMAIN index
       \/ /\ Top.f = "FindImpls"
          /\ Top.rest # <<>>
          /\ DeclaresTrait(index[Head(Top.rest)], Top.trait_name)
          /\ index[Head(Top.rest)].for_[1].t = "ResolvedPath"
          /\ \E i \in 1..Len(index[Head(Top.rest)].items) :
                index[Head(Top.rest)].items[i] \notin DOMAIN index

\* C21: an Id named by a field list, a variant list or a member list and
\* absent from the index is skipped: the run goes on to the next Id and
\* neither returns an error nor aborts.
C21_AbsentIdSkipped ==
    [][(pc = "parse" /\ ReadsAbsentId) => pc' = "parse"]_vars

----------------------------------------------------------------------------
(* Further claims about ItemProcessor                                      *)

\* The Ids along the path of an output item.
PathIds(item) == [k \in 1..Len(item) |-> item[k].id]

\* The entry that encloses entry j of the output: the last one before j
\* with a shorter path.
Encloser(j) ==
    CHOOSE i \in 1..(j - 1) :
        /\ Len(output[i]) < Len(output[j])
        /\ \A k \in (i + 1)..(j - 1) : Len(output[k]) >= Len(output[j])

\* C22: the output is grouped: the entries below an entry X follow X as one
\* block, closed before any entry that is not below X.  Every entry but
\* the seed's therefore has an encloser, this encloser is one component
\* shorter, and its path is the entry's path without the last component:
\* no sibling of X, and nothing queued before X, stands between X and an
\* entry below X.
C22_ChildrenFormOneBlock ==
    \A j \in 2..Len(output) :
        /\ \E i \in 1..(j - 1) : Len(output[i]) < Len(output[j])
        /\ Len(output[Encloser(j)]) = Len(output[j]) - 1
        /\ PathIds(output[Encloser(j)]) =
              SubSeq(PathIds(output[j]), 1, Len(output[j]) - 1)

\* The struct S with its field, then its sibling, the module n.
C22_Witness ==
    /\ Done
    /\ index["m"].items = <<"n", "s">>
    /\ Len(output) >= 4
    /\ PathIds(output[2]) = <<"m", "s">>
    /\ PathIds(output[3]) = <<"m", "s", "f">>
    /\ PathIds(output[4]) = <<"m", "n">>

----------------------------------------------------------------------------
(* Claims about what parse collects                                        *)

Range(seq) == {seq[i] : i \in 1..Len(seq)}

\* The Ids one loop of parse starts from: the slots of every block of the
\* loop's trait.
RootIdsOf(fr) ==
    { slot[2] :
        slot \in UNION { Range(ExpectedSlots(index[b], fr.filter)) :
                           b \in {c \in DOMAIN index :
                                    /\ DeclaresTrait(index[c], fr.trait_name)
                                    /\ index[c].for_[1].t = "ResolvedPath"} } }

RootIds == UNION { RootIdsOf(fr) : fr \in Range(parse_frames(order)) }

\* The roots, and the items that the fields of a root struct refer to.
VisitedIds ==
    RootIds \cup
    { index[f].ty[1].id :
        f \in { g \in UNION { Range(index[r].fields) :
                                r \in { q \in RootIds \cap DOMAIN index :
                                          /\ index[q].kind = "Struct"
                                          /\ index[q].skind = "Plain" } } :
                  index[g].ty[1].t = "ResolvedPath" } }

\* C23: after a successful parse every visited struct, of whatever kind, is
\* a key of ParsedData.structs, every visited enum a key of
\* ParsedData.enums and every visited type alias a key of
\* ParsedData.aliases.
C23_VisitedDefinitionsCollected ==
    pc = "ok" =>
        \A id \in VisitedIds \cap DOMAIN index :
            /\ index[id].kind = "Struct" => id \in DOMAIN result.data.structs
            /\ index[id].kind = "Enum" => id \in DOMAIN result.data.enums
            /\ index[id].kind = "TypeAlias" => id \in DOMAIN result.data.aliases

----------------------------------------------------------------------------
(* Claims about single steps of ItemProcessor                              *)

\* The unit at the front of the queue is present in the index.
AtItem == Running /\ NextUnit.id \in DOMAIN index /\ FitsDepth

\* The import's target has an Id, is in the index and is no ancestor of the
\* unit.
Resolvable(unit, import) ==
    /\ import.import_id # None
    /\ import.import_id[1] \in DOMAIN index
    /\ ~Occurs(PathIds(unit.parent_path), import.import_id[1])

\* The step appended exactly one item to the output.
EmitsOne ==
    /\ Len(output') = Len(output) + 1
    /\ SubSeq(output', 1, Len(output)) = output

Emitted == output'[Len(output')]

\* The step emitted nothing.
EmitsNone == output' = output

\* The number of units the step put in front of the rest of the queue.
EnqueuedCount == Len(work_queue') - Len(work_queue) + 1

\* The step took the front unit and put units for exactly the Ids ids, each
\* as often as ids names it, in front of the rest of the queue, every one
\* with a parent path along the Ids path_ids.
Enqueues(ids, path_ids) ==
    /\ EnqueuedCount = Len(ids)
    /\ SubSeq(work_queue', EnqueuedCount + 1, Len(work_queue')) = Tail(work_queue)
    /\ \A k \in 1..Len(ids) :
          /\ Count([n \in 1..Len(ids) |-> work_queue'[n].id], ids[k]) =
                Count(ids, ids[k])
          /\ PathIds(work_queue'[k].parent_path) = path_ids

\* C24: a non-glob import whose target can be resolved is emitted as the
\* target item under the import's local name, and the target's children
\* and impls are enqueued under that path; an import whose target is
\* absent, has no Id or is an ancestor is emitted itself, as a leaf.
C24_ImportInlined ==
    [][(AtItem /\ index[NextUnit.id].kind = "Import" /\ ~index[NextUnit.id].glob) =>
          LET import == index[NextUnit.id]
              actual == IF Resolvable(NextUnit, import)
                        THEN index[import.import_id[1]] ELSE import
          IN  /\ EmitsOne
              /\ PathIds(Emitted) = Append(PathIds(NextUnit.parent_path), actual.id)
              /\ Terminal(Emitted).overridden_name = Some(import.import_name)
              /\ IF Resolvable(NextUnit, import)
                 THEN Enqueues(children_for_item(actual) \o impls_for_item(actual),
                               PathIds(Emitted))
                 ELSE Enqueues(<<>>, PathIds(Emitted))]_vars

\* `pub use n::S as alias` in m was emitted as S's item under the name
\* alias, and S's field and impl were queued below it.
C24_Witness ==
    /\ Len(output) = 2
    /\ PathIds(output[2]) = <<"m", "s">>
    /\ Terminal(output[2]).overridden_name = Some("alias")
    /\ index["s"].impls = <<"p">>
    /\ Len(work_queue) >= 2
    /\ work_queue[1].id = "p"
    /\ work_queue[2].id = "f"
    /\ PathIds(work_queue[1].parent_path) = <<"m", "s">>

\* C25: a glob import of a module that can be resolved emits nothing and
\* adds no component: the module's children are enqueued with the glob's
\* own parent path.  In every other case the glob is emitted as one leaf
\* named <<source::*>> and nothing is enqueued.
C25_GlobExpandedInPlace ==
    [][(AtItem /\ index[NextUnit.id].kind = "Import" /\ index[NextUnit.id].glob) =>
          LET import == index[NextUnit.id]
          IN  IF /\ Resolvable(NextUnit, import)
                 /\ index[import.import_id[1]].kind = "Module"
              THEN /\ EmitsNone
                   /\ Enqueues(index[import.import_id[1]].items,
                               PathIds(NextUnit.parent_path))
                   /\ \A k \in 1..EnqueuedCount :
                         work_queue'[k].parent_path = NextUnit.parent_path
              ELSE /\ EmitsOne
                   /\ SubSeq(Emitted, 1, Len(Emitted) - 1) = NextUnit.parent_path
                   /\ Terminal(Emitted).id = import.id
                   /\ Terminal(Emitted).overridden_name =
                         Some("<<" \o import.source \o "::*>>")
                   /\ Enqueues(<<>>, PathIds(Emitted))]_vars

\* `pub use n::*` is all that m holds: S, a child of n, is queued right
\* below m, and nothing was emitted for the glob.
C25_Witness ==
    /\ index["m"].items = <<"u">>
    /\ index["u"].glob
    /\ index["u"].import_id = Some("n")
    /\ index["n"].items = <<"s">>
    /\ Len(output) = 1
    /\ Len(work_queue) = 1
    /\ work_queue[1].id = "s"
    /\ work_queue[1].parent_path = output[1]

\* Component c stands for an implementation block that the traversal
\* retains.
IsRetainedImpl(c) ==
    /\ index[c.id].kind = "Impl"
    /\ ImplKind_from(index[c.id]) \in {"Inherent", "Trait"}

\* C26: in every output item, a component that is a retained
\* implementation block carries the block's target type, and every
\* component before it is hidden.
C26_ImplAncestorsHidden ==
    \A i \in 1..Len(output) :
        \A k \in 1..Len(output[i]) :
            IsRetainedImpl(output[i][k]) =>
                /\ \A j \in 1..(k - 1) : output[i][j].hide
                /\ output[i][k].type_ = index[output[i][k].id].for_

\* C27 as stated: a retained implementation block has no visible
\* component of its own in any output item, and no entry of its own in
\* the final public items.
C27_ImplStepHidden ==
    /\ \A i \in 1..Len(output) :
          \A k \in 1..Len(output[i]) :
              IsRetainedImpl(output[i][k]) => output[i][k].hide
    /\ \A i \in 1..Len(public_items) : ~IsRetainedImpl(Terminal(public_items[i]))

\* C27, amended: a retained implementation block does contribute a
\* component of its own that is not hidden, as the last component of the
\* block's own entry and as the last but one of each member's entry; it
\* has no entry of its own in the final public items.
C27_ImplStepEmittedVisible ==
    /\ \A i \in 1..Len(output) :
          /\ IsRetainedImpl(Terminal(output[i])) => ~Terminal(output[i]).hide
          /\ (Len(output[i]) >= 2 /\ IsRetainedImpl(output[i][Len(output[i]) - 1])) =>
                ~output[i][Len(output[i]) - 1].hide
    /\ \A i \in 1..Len(public_items) : ~IsRetainedImpl(Terminal(public_items[i]))

\* The inherent block of S was emitted with a visible component of its
\* own, its function below it; the final public items hold S and its
\* field only.
C27_Witness ==
    /\ Done
    /\ index["m"].items = <<"s">>
    /\ index["s"].impls = <<"p">>
    /\ index["p"].items = <<"k">>
    /\ IsRetainedImpl([id |-> "p"])
    /\ Len(output) = 5
    /\ PathIds(output[3]) = <<"m", "s", "p">>
    /\ ~output[3][3].hide
    /\ PathIds(output[4]) = <<"m", "s", "p", "k">>
    /\ ~output[4][3].hide
    /\ Len(public_items) = 2

\* C28: an item that is neither an import nor an implementation block and
\* whose Id is among its ancestors is emitted once, under the name
\* <<name>>, and nothing is enqueued for it; any other such item is emitted
\* under its own name and all its children and attached impls are
\* enqueued.
C28_RecursionLeaf ==
    [][(AtItem /\ index[NextUnit.id].kind \notin {"Import", "Impl"}) =>
          LET item == index[NextUnit.id]
          IN  /\ EmitsOne
              /\ SubSeq(Emitted, 1, Len(Emitted) - 1) = NextUnit.parent_path
              /\ Terminal(Emitted).id = item.id
              /\ IF Occurs(PathIds(NextUnit.parent_path), item.id)
                 THEN /\ Terminal(Emitted).overridden_name =
                            Some("<<" \o (IF item.name = None THEN ""
                                          ELSE item.name[1]) \o ">>")
                      /\ Enqueues(<<>>, PathIds(Emitted))
                 ELSE /\ Terminal(Emitted).overridden_name = None
                      /\ Enqueues(children_for_item(item) \o impls_for_item(item),
                                  PathIds(Emitted))]_vars

\* The module n lists itself: below m and n it was emitted as <<n>>, and
\* the queue holds nothing for it.
C28_Witness ==
    /\ index["m"].items = <<"n">>
    /\ index["n"].items = <<"n">>
    /\ Len(output) = 3
    /\ PathIds(output[3]) = <<"m", "n", "n">>
    /\ Terminal(output[3]).overridden_name = Some("<<n>>")
    /\ work_queue = <<>>

\* The four ways a dequeued unit is handled.  In each of them the unit
\* itself leaves the queue and the units behind it stay as they were.
RestKept ==
    /\ Len(work_queue') >= Len(work_queue) - 1
    /\ SubSeq(work_queue', EnqueuedCount + 1, Len(work_queue')) = Tail(work_queue)

HandledEmitted ==
    /\ NextUnit.id \in DOMAIN index
    /\ EmitsOne
    /\ SubSeq(Emitted, 1, Len(Emitted) - 1) = NextUnit.parent_path

HandledGlob ==
    /\ NextUnit.id \in DOMAIN index
    /\ index[NextUnit.id].kind = "Import"
    /\ index[NextUnit.id].glob
    /\ Resolvable(NextUnit, index[NextUnit.id])
    /\ index[index[NextUnit.id].import_id[1]].kind = "Module"
    /\ EmitsNone

HandledPruned ==
    /\ NextUnit.id \in DOMAIN index
    /\ index[NextUnit.id].kind = "Impl"
    /\ EmitsNone
    /\ work_queue' = Tail(work_queue)
    /\ missing_ids' = missing_ids

HandledMissing ==
    /\ NextUnit.id \notin DOMAIN index
    /\ EmitsNone
    /\ work_queue' = Tail(work_queue)
    /\ missing_ids' = Append(missing_ids, NextUnit.id)

\* C29: every iteration of run takes the front unit out of the queue,
\* leaves the units behind it in place and handles it in exactly one way
\* (one output item, a glob import expanded in place, a pruned
\* implementation block, or a missing Id recorded); and when run has
\* returned the queue is empty.
C29_EveryUnitHandledOnce ==
    /\ [](pc = "done" => work_queue = <<>>)
    /\ [][(Running /\ pc' = "run") =>
            /\ RestKept
            /\ Count(<<HandledEmitted, HandledGlob,
                       HandledPruned, HandledMissing>>, TRUE) = 1]_vars

\* run has returned after a missing Id, a glob import expanded in place
\* and several emitted items.
C29_Witness ==
    /\ pc = "done"
    /\ work_queue = <<>>
    /\ index["m"].items = <<"x", "u">>
    /\ index["u"].glob
    /\ index["u"].import_id = Some("n")
    /\ index["n"].items = <<"s">>
    /\ index["s"].impls = <<"p">>
    /\ missing_ids = <<"x">>
    /\ [i \in 1..Len(output) |-> PathIds(output[i])] =
          << <<"m">>, <<"m", "s">>, <<"m", "s", "p">>,
             <<"m", "s", "p", "k">>, <<"m", "s", "f">> >>

\* C30: id_to_items partitions the output.  Its keys are the terminal
\* Ids of the output items; the list of an Id holds, in output order and
\* once each, exactly the output items ending in that Id; the lists
\* together have as many entries as the output.
C30_IdToItemsPartition ==
    LET map  == id_to_items
        ends == [i \in 1..Len(output) |-> Terminal(output[i]).id]
    IN  /\ DOMAIN map = Range(ends)
        /\ \A id \in DOMAIN map :
              /\ map[id] # <<>>
              /\ \A k \in 1..Len(map[id]) :
                    /\ map[id][k] \in 1..Len(output)
                    /\ ends[map[id][k]] = id
                    /\ k > 1 => map[id][k - 1] < map[id][k]
              /\ Len(map[id]) = Count(ends, id)
        /\ Cardinality(UNION {{<<id, k>> : k \in 1..Len(map[id])} :
                                 id \in DOMAIN map}) = Len(output)

\* The struct s was reached twice, through n and directly below m: its
\* list holds both output items, in output order.
C30_Witness ==
    /\ pc = "done"
    /\ index["m"].items = <<"s", "n">>
    /\ index["n"].items = <<"s">>
    /\ Len(id_to_items["s"]) = 2
    /\ PathIds(output[id_to_items["s"][1]]) = <<"m", "n", "s">>
    /\ PathIds(output[id_to_items["s"][2]]) = <<"m", "s">>

----------------------------------------------------------------------------
(* Further claims about the parser                                         *)

\* The loop over generic arguments is at a lifetime, const or inferred
\* argument.
MeetsUnhandledArg ==
    /\ stack # <<>>
    /\ Top.f = "Args"
    /\ Top.args # <<>>
    /\ Head(Top.args).a \in {"Lifetime", "Const", "Infer"}

\* C31: a lifetime, const or inferred generic argument in angle brackets
\* ends the run in an abort (todo!()): no Err is returned and the run does
\* not go on as it does after an omitted field.
C31_UnhandledArgAborts ==
    [][(pc = "parse" /\ MeetsUnhandledArg) =>
          /\ pc' = "panic"
          /\ result' = [tag |-> "Panic", why |-> "todo"]
          /\ parsed_data' = parsed_data]_vars

\* Model { count: Arr<u8, N>, .. }: the first argument was visited, the
\* const argument aborted the run.
C31_Witness ==
    /\ pc = "panic"
    /\ result = [tag |-> "Panic", why |-> "todo"]
    /\ index["f1"].ty[1].t = "ResolvedPath"
    /\ index["f1"].ty[1].name = "Arr"
    /\ MeetsUnhandledArg
    /\ Head(Top.args).a = "Const"
    /\ Top.i = 1

----------------------------------------------------------------------------
(* Further claims about paths and their hide flags                         *)

\* The path with the hide flag of every component cleared.
Unhidden(path) == [i \in 1..Len(path) |-> [path[i] EXCEPT !.hide = FALSE]]

\* C32: the sortable path of an output item has one entry per path
\* component, in path order, hidden components included; it is the same
\* whatever the hide flags of the components are.
C32_SortablePathKeepsHidden ==
    \A i \in 1..Len(output) :
        LET item == output[i]
        IN  /\ Len(sortable_path(item)) = Len(item)
            /\ sortable_path(item) = PriorityNamePairs(item)
            /\ sortable_path(Unhidden(item)) = sortable_path(item)

\* The function k of the inherent impl of S: the module and the struct are
\* hidden on its path and are still entries of its sortable path.
C32_Witness ==
    \E i \in 1..Len(output) :
        /\ PathIds(output[i]) = <<"m", "s", "p", "k">>
        /\ output[i][1].hide /\ output[i][2].hide
        /\ ~output[i][3].hide /\ ~output[i][4].hide
        /\ Len(sortable_path(output[i])) = 4
        /\ sortable_path(output[i])[1][2] = "m"
        /\ sortable_path(output[i])[2][2] = "S"

----------------------------------------------------------------------------
(* Further claims about the parser's fields                                *)

\* The call on top of the stack is visit_type on the type of a field of an
\* enum variant, and the type is a primitive of the table.
VisitsPortableVariantField ==
    /\ stack # <<>>
    /\ Top.f = "Type"
    /\ Top.field # None
    /\ index[Top.field[1][2]].kind = "Variant"
    /\ Top.ty.t = "Primitive"
    /\ Top.ty.name \in DOMAIN SpecialRustTypeTable

\* C33: a field of an enum variant whose type is a primitive of the table
\* is handled without an abort: the run goes on with the fields that
\* follow.
C33_VariantFieldHandled ==
    [][(pc = "parse" /\ VisitsPortableVariantField) =>
          (pc' = "parse" /\ stack' = Tail(stack))]_vars

\* Component k of the path is an implementation block attached to the
\* item of component k - 1.
AttachedImplAt(path, k) ==
    /\ k > 1
    /\ index[path[k].id].kind = "Impl"
    /\ Occurs(impls_for_item(index[path[k - 1].id]), path[k].id)

\* C34: every output item has a non-empty path whose last component is
\* not hidden; a hidden component is never the last one, and it occurs
\* only on a path that goes on through an implementation block attached
\* to an item of the path.
C34_HideOnlyBeforeAttachedImpl ==
    \A i \in 1..Len(output) :
        /\ output[i] # <<>>
        /\ ~Terminal(output[i]).hide
        /\ \A j \in 1..Len(output[i]) :
              output[i][j].hide =>
                  /\ j < Len(output[i])
                  /\ \E k \in (j + 1)..Len(output[i]) :
                        AttachedImplAt(output[i], k)

\* The re-export of S inside n: below the inherent block of S the
\* components m, n and S are hidden, the block and its function are not.
C34_Witness ==
    \E i \in 1..Len(output) :
        /\ PathIds(output[i]) = <<"m", "n", "s", "p", "k">>
        /\ [j \in 1..5 |-> output[i][j].hide] = <<TRUE, TRUE, TRUE, FALSE, FALSE>>
        /\ AttachedImplAt(output[i], 4)

\* C35: when an item with attached impls is processed, the forced hide
\* flags are on the paths of the impls' work units alone: the item's own
\* output entry keeps the flags of its parent path and ends visible, its
\* children's work units carry that same path, the output items before it
\* and the work units behind it are as they were.
C35_HideForcedOnImplCopiesOnly ==
    [][(AtItem /\ EmitsOne /\ EnqueuedCount > 0
          /\ impls_for_item(index[Terminal(Emitted).id]) # <<>>) =>
          LET nImpls == Len(impls_for_item(index[Terminal(Emitted).id]))
              nChildren == Len(children_for_item(index[Terminal(Emitted).id]))
          IN  /\ EnqueuedCount = nImpls + nChildren
              /\ SubSeq(Emitted, 1, Len(Emitted) - 1) = NextUnit.parent_path
              /\ ~Terminal(Emitted).hide
              /\ \A k \in 1..nImpls :
                    /\ Unhidden(work_queue'[k].parent_path) = Unhidden(Emitted)
                    /\ \A j \in 1..Len(Emitted) : work_queue'[k].parent_path[j].hide
              /\ \A k \in (nImpls + 1)..(nImpls + nChildren) :
                    work_queue'[k].parent_path = Emitted
              /\ SubSeq(output', 1, Len(output)) = output
              /\ RestKept]_vars

\* S was processed below m: the unit of its inherent block has m and S
\* hidden, the unit of its field and the output items have them visible.
C35_Witness ==
    /\ Len(output) = 2
    /\ PathIds(output[2]) = <<"m", "s">>
    /\ ~output[2][1].hide /\ ~output[2][2].hide /\ ~output[1][1].hide
    /\ Len(work_queue) >= 2
    /\ work_queue[1].id = "p"
    /\ work_queue[1].parent_path = HideAll(output[2])
    /\ work_queue[2].id = "f"
    /\ work_queue[2].parent_path = output[2]

----------------------------------------------------------------------------
(* Claims about the order of siblings                                      *)

\* The sequence in reverse.
Reversed(seq) == [k \in 1..Len(seq) |-> seq[Len(seq) + 1 - k]]

\* C36: the units enqueued for one item stand at the front of the queue,
\* the attached impls first and the structural children after them, each
\* group in the reverse of its declared order; the queue is served from
\* the front, so that is the order in which they are emitted.
C36_ImplsFirstReverseDeclared ==
    [][(AtItem /\ EmitsOne /\ EnqueuedCount > 0) =>
          LET item == index[Terminal(Emitted).id]
              ids == [k \in 1..EnqueuedCount |-> work_queue'[k].id]
          IN  /\ ids = Reversed(impls_for_item(item)) \o
                       Reversed(children_for_item(item))
              /\ RestKept]_vars

\* S { f, g } with the blocks p and q, declared in that order: q, p and
\* the function of p are emitted first, then g, then f, then the module n
\* declared before S, with its one item.
C36_Witness ==
    /\ Done
    /\ index["m"].items = <<"n", "s">>
    /\ index["s"].fields = <<"f", "g">>
    /\ index["s"].impls = <<"p", "q">>
    /\ [i \in 1..Len(output) |-> Terminal(output[i]).id] =
          <<"m", "s", "q", "p", "k", "g", "f", "n", "e">>

----------------------------------------------------------------------------
(* Claims about missing Ids of imports                                     *)

\* C37: processing an import records a missing Id only when the lookup of
\* its target fails.  An import without a target Id, or whose target is an
\* ancestor on the path, or whose target is found, leaves the missing Ids
\* as they were; an import whose target Id is absent from the index adds
\* that Id once and is itself emitted, with nothing enqueued below it.
C37_ImportMissingOnlyOnFailedLookup ==
    [][(AtItem /\ index[NextUnit.id].kind = "Import") =>
          LET import == index[NextUnit.id]
              target == import.import_id
          IN  IF \/ target = None
                 \/ Occurs(PathIds(NextUnit.parent_path), target[1])
                 \/ target[1] \in DOMAIN index
              THEN missing_ids' = missing_ids
              ELSE /\ missing_ids' = Append(missing_ids, target[1])
                   /\ EmitsOne
                   /\ SubSeq(Emitted, 1, Len(Emitted) - 1) = NextUnit.parent_path
                   /\ Terminal(Emitted).id = import.id
                   /\ work_queue' = Tail(work_queue)]_vars

\* `pub use x as alias` in m, x absent from the index: x was recorded and
\* the import is an output item of its own.
C37_Witness ==
    /\ Done
    /\ index["m"].items = <<"u">>
    /\ index["u"].import_id = Some("x")
    /\ ~index["u"].glob
    /\ missing_ids = <<"x">>
    /\ Len(output) = 2
    /\ PathIds(output[2]) = <<"m", "u">>
    /\ Terminal(output[2]).overridden_name = Some("alias")

====
